---- MODULE Spec2Model ----
(***************************************************************************)
(* Model of the circular doubly-linked list of src/src/lib.rs:             *)
(* LinkedList<T> (head, tail), Node<T> (value, next_node, prev_node) and   *)
(* LinkedListIter<T> (head, cur_node).                                     *)
(*                                                                         *)
(* An Rc<RefCell<Node<T>>> is modelled by the index of the node in the     *)
(* sequence `nodes` (nodes are only ever created by add, in order, and     *)
(* never freed while the list is alive); Option::None is the index 0.      *)
(* A Node<T> handed to the caller (the result of borrow().clone()) is a    *)
(* record holding a copy of the value and of the two links.                *)
(* The program is single-threaded: every method runs to its end before the *)
(* next call starts, so each method is one action.                         *)
(***************************************************************************)
EXTENDS Integers, Sequences, FiniteSets, TLC

\* ---- bounds of the model -------------------------------------------------
\* nodes added in the specification without iterators / in the ones with
MaxNodes == 4
MaxIterNodes == 3
\* next() calls, then prev() calls, chained in a round trip (three in the sample)
MaxHops == 3
\* items an iterator is followed for
MaxYield == MaxIterNodes + 1
\* element values (T = a small integer type)
Values == {1, 2}
\* the caller's variables of type Node<T> and of type LinkedListIter<T>
HeldVars == {"a", "b"}
IterIds == {"it", "jt"}
\* the iterator of a single for loop
LoopIters == {"it"}

\* ---- representation ------------------------------------------------------
None == 0
\* T::default()
Default == 0

VARIABLES nodes, head, tail, held, iters, call, fault

vars == <<nodes, head, tail, held, iters, call, fault>>

\* The program runs until a panic; a panic ends it.
Running == fault = "none"

\* Node::new
Node_new == [value |-> Default, next_node |-> None, prev_node |-> None]

\* borrow().clone() of the node behind link n: a copy of the value and of the
\* two links.  `of` and `at` are history fields of the model (the node copied
\* and the number of nodes at that time); the program does not read them.
Clone(n) == [value |-> nodes[n].value,
             next_node |-> nodes[n].next_node,
             prev_node |-> nodes[n].prev_node,
             of |-> n, at |-> Len(nodes)]

\* No Node<T>: the receiver of a call that has none, the item of an iterator
\* that returned None.
NoItem == [value |-> Default, next_node |-> None, prev_node |-> None,
           of |-> None, at |-> 0]

\* An iterator variable not yet bound.
NoIter == [head |-> None, cur_node |-> None, item |-> NoItem, yielded |-> << >>,
           size0 |-> 0, dirs |-> {}, live |-> FALSE]

\* The record of the last call: the method, the Node<T> it was called on or
\* given, the value argument, and what it returned.
Call(op, self, arg, r) == [op |-> op, self |-> self, arg |-> arg, ret |-> r]

\* The Node<T> values the caller has: the ones it keeps in variables, and the
\* item each iterator returned last (the variable of a for loop).
Items == {iters[i].item : i \in IterIds} \ {NoItem}
Held == {held[x] : x \in HeldVars} \ {NoItem}
Snapshots == Held \cup Items

\* What an iterator's history keeps of an item it yielded: the node and the
\* value the item carried.
Item(s) == [of |-> s.of, value |-> s.value]

\* LinkedList::new
Init ==
    /\ nodes = << >>
    /\ head = None
    /\ tail = None
    /\ held = [x \in HeldVars |-> NoItem]
    /\ iters = [i \in IterIds |-> NoIter]
    /\ call = Call("new", NoItem, Default, "unit")
    /\ fault = "none"

\* AddNodes with the tail.borrow_mut().next_node assignment left out.
AddNodes_NoTailLink(value) ==
    LET link == Len(nodes) + 1
        new_node == [Node_new EXCEPT !.value = value]
    IN IF head = None
       THEN Append(nodes, [new_node EXCEPT !.next_node = link, !.prev_node = link])
       ELSE LET node_ref == [new_node EXCEPT !.prev_node = tail, !.next_node = head]
            IN [Append(nodes, node_ref) EXCEPT ![head].prev_node = link]

\* AddNodes with the new node's prev_node set to the head instead of the tail.
AddNodes_PrevIsHead(value) ==
    LET link == Len(nodes) + 1
        new_node == [Node_new EXCEPT !.value = value]
    IN IF head = None
       THEN Append(nodes, [new_node EXCEPT !.next_node = link, !.prev_node = link])
       ELSE LET node_ref == [new_node EXCEPT !.prev_node = head, !.next_node = head]
                linked1 == [Append(nodes, node_ref) EXCEPT ![head].prev_node = link]
            IN [linked1 EXCEPT ![tail].next_node = link]

\* AddNodes with the new node linked in after the head instead of before it.
AddNodes_AfterHead(value) ==
    LET link == Len(nodes) + 1
        new_node == [Node_new EXCEPT !.value = value]
    IN IF head = None
       THEN Append(nodes, [new_node EXCEPT !.next_node = link, !.prev_node = link])
       ELSE LET after == nodes[head].next_node
                node_ref == [new_node EXCEPT !.prev_node = head, !.next_node = after]
                linked1 == [Append(nodes, node_ref) EXCEPT ![after].prev_node = link]
            IN [linked1 EXCEPT ![head].next_node = link]

\* AddNodes with the first node's prev_node left unset.
AddNodes_FirstHalfLinked(value) ==
    LET link == Len(nodes) + 1
        new_node == [Node_new EXCEPT !.value = value]
    IN IF head = None
       THEN Append(nodes, [new_node EXCEPT !.next_node = link])
       ELSE LET node_ref == [new_node EXCEPT !.prev_node = tail, !.next_node = head]
                linked1 == [Append(nodes, node_ref) EXCEPT ![head].prev_node = link]
            IN [linked1 EXCEPT ![tail].next_node = link]

\* The nodes after LinkedList::add(value): the new node is the link
\* Len(nodes) + 1.
AddNodes(value) ==
    LET link == Len(nodes) + 1
        new_node == [Node_new EXCEPT !.value = value]
    IN IF head = None
       THEN Append(nodes, [new_node EXCEPT !.next_node = link, !.prev_node = link])
       ELSE LET node_ref == [new_node EXCEPT !.prev_node = tail, !.next_node = head]
                linked1 == [Append(nodes, node_ref) EXCEPT ![head].prev_node = link]
            IN [linked1 EXCEPT ![tail].next_node = link]

\* LinkedList::add
LinkedList_add(value) ==
    /\ Running
    /\ nodes' = AddNodes(value)
    /\ head' = IF head = None THEN Len(nodes) + 1 ELSE head
    /\ tail' = Len(nodes) + 1
    /\ call' = Call("add", NoItem, value, "unit")
    /\ UNCHANGED <<held, iters, fault>>

\* The caller binds a returned Node<T> to its variable x.
Keep(x, s) == [held EXCEPT ![x] = s]

\* LinkedList::head
LinkedList_head(x) ==
    /\ Running
    /\ IF head = None
       THEN /\ fault' = "LinkedList is not built!"
            /\ UNCHANGED <<held, call>>
       ELSE /\ held' = Keep(x, Clone(head))
            /\ call' = Call("head", NoItem, Default, "Node")
            /\ UNCHANGED fault
    /\ UNCHANGED <<nodes, head, tail, iters>>

\* LinkedList::tail
LinkedList_tail(x) ==
    /\ Running
    /\ IF tail = None
       THEN /\ fault' = "LinkedList is not built!"
            /\ UNCHANGED <<held, call>>
       ELSE /\ held' = Keep(x, Clone(tail))
            /\ call' = Call("tail", NoItem, Default, "Node")
            /\ UNCHANGED fault
    /\ UNCHANGED <<nodes, head, tail, iters>>

\* The Node<T> that Node::next returns for s when s has a next link.
next(s) == Clone(s.next_node)

\* prev that follows the next link.
prev_FollowsNext(s) == Clone(s.next_node)

\* The Node<T> that Node::prev returns for s when s has a prev link.
prev(s) == Clone(s.prev_node)

\* Node::next, called on the Node<T> s the caller has
Node_next(s, x) ==
    /\ Running
    /\ IF s.next_node # None
       THEN /\ held' = Keep(x, next(s))
            /\ call' = Call("next", s, Default, "Node")
            /\ UNCHANGED fault
       ELSE /\ fault' = "No next available!"
            /\ UNCHANGED <<held, call>>
    /\ UNCHANGED <<nodes, head, tail, iters>>

\* Node::prev, called on the Node<T> s the caller has
Node_prev(s, x) ==
    /\ Running
    /\ IF s.prev_node # None
       THEN /\ held' = Keep(x, prev(s))
            /\ call' = Call("prev", s, Default, "Node")
            /\ UNCHANGED fault
       ELSE /\ fault' = "No prev available!"
            /\ UNCHANGED <<held, call>>
    /\ UNCHANGED <<nodes, head, tail, iters>>

\* Resolve that stops at the recorded next link.
Resolve_NextOnly(s) == s.next_node

\* next_node.unwrap().borrow().prev_node.clone().unwrap() of Node::mutate,
\* is_tail and is_head: the link the copy s is resolved to, None when one of
\* the two unwraps panics.
Resolve(s) == IF s.next_node = None THEN None ELSE nodes[s.next_node].prev_node

\* Node::mutate that stores the whole copy, its recorded links included, in
\* the node.
Node_mutate_WholeCopy(s, value) ==
    /\ Running
    /\ Resolve(s) # None
    /\ nodes' = [nodes EXCEPT ![Resolve(s)] = [value |-> value,
                                               next_node |-> s.next_node,
                                               prev_node |-> s.prev_node]]
    /\ call' = Call("mutate", s, value, "unit")
    /\ UNCHANGED <<head, tail, held, iters, fault>>

\* Node::mutate on copies that alias the node: the copies the caller holds of
\* the node change with it.
Node_mutate_Aliased(s, value) ==
    /\ Running
    /\ LET this_node == Resolve(s)
       IN IF this_node = None
          THEN /\ fault' = "unwrap on None"
               /\ UNCHANGED <<nodes, held, call>>
          ELSE /\ nodes' = [nodes EXCEPT ![this_node].value = value]
               /\ held' = [x \in HeldVars |->
                              IF held[x].of = this_node
                              THEN [held[x] EXCEPT !.value = value] ELSE held[x]]
               /\ call' = Call("mutate", s, value, "unit")
               /\ UNCHANGED fault
    /\ UNCHANGED <<head, tail, iters>>

\* Node::mutate, called on the Node<T> s the caller has
Node_mutate(s, value) ==
    /\ Running
    /\ LET this_node == Resolve(s)
       IN IF this_node = None
          THEN /\ fault' = "unwrap on None"
               /\ UNCHANGED <<nodes, call>>
          ELSE /\ nodes' = [nodes EXCEPT ![this_node].value = value]
               /\ call' = Call("mutate", s, value, "unit")
               /\ UNCHANGED fault
    /\ UNCHANGED <<head, tail, held, iters>>

\* The value LinkedList::is_tail returns for s; "panic" when an unwrap fails.
is_tail(s) ==
    LET cur_node == Resolve(s)
    IN IF cur_node = None \/ tail = None THEN "panic"
       ELSE IF tail = cur_node THEN "true" ELSE "false"

\* The value LinkedList::is_head returns for s; "panic" when an unwrap fails.
is_head(s) ==
    LET cur_node == Resolve(s)
    IN IF cur_node = None \/ head = None THEN "panic"
       ELSE IF head = cur_node THEN "true" ELSE "false"

\* LinkedList::is_tail
LinkedList_is_tail(s) ==
    /\ Running
    /\ IF is_tail(s) = "panic"
       THEN /\ fault' = "unwrap on None"
            /\ UNCHANGED call
       ELSE /\ call' = Call("is_tail", s, Default, is_tail(s))
            /\ UNCHANGED fault
    /\ UNCHANGED <<nodes, head, tail, held, iters>>

\* LinkedList::is_head
LinkedList_is_head(s) ==
    /\ Running
    /\ IF is_head(s) = "panic"
       THEN /\ fault' = "unwrap on None"
            /\ UNCHANGED call
       ELSE /\ call' = Call("is_head", s, Default, is_head(s))
            /\ UNCHANGED fault
    /\ UNCHANGED <<nodes, head, tail, held, iters>>

\* LinkedList::iter: the caller binds the new iterator to the variable i.
\* size0 (the number of nodes now), dirs (the steps taken) and yielded (the
\* items returned) are history fields.
LinkedList_iter(i) ==
    /\ Running
    /\ iters' = [iters EXCEPT ![i] = [head |-> head, cur_node |-> head,
                                      item |-> NoItem, yielded |-> << >>,
                                      size0 |-> Len(nodes), dirs |-> {},
                                      live |-> TRUE]]
    /\ call' = Call("iter", NoItem, Default, "unit")
    /\ UNCHANGED <<nodes, head, tail, held, fault>>

\* The model follows an iterator for at most MaxYield items.
CanYield(i) == Len(iters[i].yielded) < MaxYield

\* Advance that tests against the list's tail: it stops one node early.
Advance_AtTail(self, nb) == IF nb = tail THEN None ELSE nb

\* Advance without the Rc::ptr_eq test: the iterator goes round for ever.
Advance_NoTest(self, nb) == nb

\* The new cur_node of an iterator step that found the neighbour nb: the
\* Rc::ptr_eq test against the iterator's head.
Advance(self, nb) == IF self.head = nb THEN None ELSE nb

\* Iterator::next with one cursor shared by every iterator over the list.
Iter_next_Shared(i) ==
    /\ Running
    /\ iters[i].live
    /\ iters[i].cur_node # None
    /\ CanYield(i)
    /\ LET self == iters[i]
           cur_t == Clone(self.cur_node)
           nxt == Advance(self, nodes[self.cur_node].next_node)
       IN iters' = [j \in IterIds |->
                       IF j = i
                       THEN [self EXCEPT !.cur_node = nxt, !.item = cur_t,
                                         !.yielded = Append(@, Item(cur_t)),
                                         !.dirs = @ \cup {"next"}]
                       ELSE [iters[j] EXCEPT !.cur_node = nxt]]
    /\ call' = Call("Iterator::next", NoItem, Default, "Some")
    /\ UNCHANGED <<nodes, head, tail, held, fault>>

\* Iterator::next that starts again from the list's head once cur_node is
\* None.
Iter_next_Restart(i) ==
    /\ Running
    /\ iters[i].live
    /\ head # None
    /\ CanYield(i)
    /\ LET self == iters[i]
           start == IF self.cur_node = None THEN head ELSE self.cur_node
       IN iters' = [iters EXCEPT
                       ![i].cur_node = Advance(self, nodes[start].next_node),
                       ![i].item = Clone(start),
                       ![i].yielded = Append(@, Item(Clone(start))),
                       ![i].dirs = @ \cup {"next"}]
    /\ call' = Call("Iterator::next", NoItem, Default, "Some")
    /\ UNCHANGED <<nodes, head, tail, held, fault>>

\* Iterator::next for LinkedListIter
Iter_next(i) ==
    /\ Running
    /\ iters[i].live
    /\ LET self == iters[i]
       IN IF self.cur_node = None
          THEN /\ iters' = [iters EXCEPT ![i].item = NoItem,
                                          ![i].dirs = @ \cup {"next"}]
               /\ call' = Call("Iterator::next", NoItem, Default, "None")
               /\ UNCHANGED fault
          ELSE LET cur_t == Clone(self.cur_node)
                   next_link == nodes[self.cur_node].next_node
               IN IF self.head = None \/ next_link = None
                  THEN /\ fault' = "unwrap on None"
                       /\ UNCHANGED <<iters, call>>
                  ELSE /\ CanYield(i)
                       /\ iters' = [iters EXCEPT
                              ![i].cur_node = Advance(self, next_link),
                              ![i].item = cur_t,
                              ![i].yielded = Append(@, Item(cur_t)),
                              ![i].dirs = @ \cup {"next"}]
                       /\ call' = Call("Iterator::next", NoItem, Default, "Some")
                       /\ UNCHANGED fault
    /\ UNCHANGED <<nodes, head, tail, held>>

\* DoubleEndedIterator::next_back for LinkedListIter
Iter_next_back(i) ==
    /\ Running
    /\ iters[i].live
    /\ LET self == iters[i]
       IN IF self.cur_node = None
          THEN /\ iters' = [iters EXCEPT ![i].item = NoItem,
                                          ![i].dirs = @ \cup {"next_back"}]
               /\ call' = Call("next_back", NoItem, Default, "None")
               /\ UNCHANGED fault
          ELSE LET next_back == nodes[self.cur_node].prev_node
               IN IF self.head = None \/ next_back = None
                  THEN /\ fault' = "unwrap on None"
                       /\ UNCHANGED <<iters, call>>
                  ELSE /\ CanYield(i)
                       /\ iters' = [iters EXCEPT
                              ![i].cur_node = Advance(self, next_back),
                              ![i].item = Clone(next_back),
                              ![i].yielded = Append(@, Item(Clone(next_back))),
                              ![i].dirs = @ \cup {"next_back"}]
                       /\ call' = Call("next_back", NoItem, Default, "Some")
                       /\ UNCHANGED fault
    /\ UNCHANGED <<nodes, head, tail, held>>

\* A second list, made by LinkedList::new and never added to.  Node<T> copies
\* of the first list can be passed to it: the links of a copy are Rc pointers,
\* valid whatever list they are shown to.
Other == [head |-> None, tail |-> None]

\* How LinkedList::head / LinkedList::tail end on the list l.
head_of(l) == IF l.head = None THEN "panic" ELSE "Node"
tail_of(l) == IF l.tail = None THEN "panic" ELSE "Node"

\* is_head_of that compares the Option links instead of unwrapping them.
is_head_of_NoUnwrap(l, s) == IF l.head = Resolve(s) THEN "true" ELSE "false"

\* The value LinkedList::is_head / is_tail return for s on the list l;
\* "panic" when an unwrap fails.
is_head_of(l, s) ==
    LET cur_node == Resolve(s)
    IN IF cur_node = None \/ l.head = None THEN "panic"
       ELSE IF l.head = cur_node THEN "true" ELSE "false"
is_tail_of(l, s) ==
    LET cur_node == Resolve(s)
    IN IF cur_node = None \/ l.tail = None THEN "panic"
       ELSE IF l.tail = cur_node THEN "true" ELSE "false"

\* LinkedList::head on the second list
Other_head(x) ==
    /\ Running
    /\ IF head_of(Other) = "panic"
       THEN /\ fault' = "LinkedList is not built!"
            /\ UNCHANGED <<held, call>>
       ELSE /\ held' = Keep(x, Clone(Other.head))
            /\ call' = Call("other.head", NoItem, Default, "Node")
            /\ UNCHANGED fault
    /\ UNCHANGED <<nodes, head, tail, iters>>

\* LinkedList::tail on the second list
Other_tail(x) ==
    /\ Running
    /\ IF tail_of(Other) = "panic"
       THEN /\ fault' = "LinkedList is not built!"
            /\ UNCHANGED <<held, call>>
       ELSE /\ held' = Keep(x, Clone(Other.tail))
            /\ call' = Call("other.tail", NoItem, Default, "Node")
            /\ UNCHANGED fault
    /\ UNCHANGED <<nodes, head, tail, iters>>

\* LinkedList::is_head on the second list
Other_is_head(s) ==
    /\ Running
    /\ IF is_head_of(Other, s) = "panic"
       THEN /\ fault' = "unwrap on None"
            /\ UNCHANGED call
       ELSE /\ call' = Call("other.is_head", s, Default, is_head_of(Other, s))
            /\ UNCHANGED fault
    /\ UNCHANGED <<nodes, head, tail, held, iters>>

\* LinkedList::is_tail on the second list
Other_is_tail(s) ==
    /\ Running
    /\ IF is_tail_of(Other, s) = "panic"
       THEN /\ fault' = "unwrap on None"
            /\ UNCHANGED call
       ELSE /\ call' = Call("other.is_tail", s, Default, is_tail_of(Other, s))
            /\ UNCHANGED fault
    /\ UNCHANGED <<nodes, head, tail, held, iters>>

\* ---- specifications ------------------------------------------------------
\* The list alone: add, the Node<T> copies and what is called on them.
NextRing ==
    \/ \E v \in Values : Len(nodes) < MaxNodes /\ LinkedList_add(v)
    \/ \E x \in HeldVars : LinkedList_head(x)
    \/ \E x \in HeldVars : LinkedList_tail(x)
    \/ \E s \in Held, x \in HeldVars : Node_next(s, x)
    \/ \E s \in Held, x \in HeldVars : Node_prev(s, x)
    \/ \E s \in Held, v \in Values : Node_mutate(s, v)
    \/ \E s \in Held : LinkedList_is_tail(s)
    \/ \E s \in Held : LinkedList_is_head(s)

SpecRing == Init /\ [][NextRing]_vars

\* The list and its iterators: add, iter, the two steps, and what a for loop
\* calls on the item.
NextIter ==
    \/ \E v \in Values : Len(nodes) < MaxIterNodes /\ LinkedList_add(v)
    \/ \E i \in LoopIters : LinkedList_iter(i)
    \/ \E i \in LoopIters : Iter_next(i)
    \/ \E i \in LoopIters : Iter_next_back(i)
    \/ \E s \in Items, v \in Values : Node_mutate(s, v)
    \/ \E s \in Items : LinkedList_is_tail(s)
    \/ \E s \in Items : LinkedList_is_head(s)

SpecIter == Init /\ [][NextIter]_vars

\* A list that is built first and then only read: no add and no mutate once
\* an iterator exists.
NoIterYet == \A i \in IterIds : ~iters[i].live

NextRead ==
    \/ \E v \in Values : NoIterYet /\ Len(nodes) < MaxIterNodes /\ LinkedList_add(v)
    \/ \E i \in LoopIters : LinkedList_iter(i)
    \/ \E i \in LoopIters : Iter_next(i)
    \/ \E i \in LoopIters : Iter_next_back(i)
    \/ \E s \in Items : LinkedList_is_tail(s)
    \/ \E s \in Items : LinkedList_is_head(s)

SpecRead == Init /\ [][NextRead]_vars

\* The for loop of the sample: the list is built, then every item of one
\* forward iteration is mutated to F of its value before the next step.
F(v) == 4 * v

NextLoop ==
    \/ \E v \in Values : NoIterYet /\ Len(nodes) < MaxIterNodes /\ LinkedList_add(v)
    \/ \E i \in LoopIters : NoIterYet /\ LinkedList_iter(i)
    \/ \E i \in LoopIters : call.op \in {"iter", "mutate"} /\ Iter_next(i)
    \/ \E i \in LoopIters :
          /\ call.op = "Iterator::next"
          /\ call.ret = "Some"
          /\ Node_mutate(iters[i].item, F(iters[i].item.value))

SpecLoop == Init /\ [][NextLoop]_vars

\* A list, its Node<T> copies, and a second list that stays empty.
NextEmpty ==
    \/ \E v \in Values : Len(nodes) < MaxIterNodes /\ LinkedList_add(v)
    \/ \E x \in HeldVars : LinkedList_head(x)
    \/ \E x \in HeldVars : LinkedList_tail(x)
    \/ \E s \in Held, x \in HeldVars : Node_next(s, x)
    \/ \E s \in Held, x \in HeldVars : Node_prev(s, x)
    \/ \E x \in HeldVars : Other_head(x)
    \/ \E x \in HeldVars : Other_tail(x)
    \/ \E s \in Held : Other_is_head(s)
    \/ \E s \in Held : Other_is_tail(s)

SpecEmpty == Init /\ [][NextEmpty]_vars

\* The variable the read-only calls of NextFrame store their result in.
FrameVars == {"a"}

\* NextFrame builds a list one node shorter than the other iterator
\* specifications do.
MaxFrameNodes == MaxIterNodes - 1

\* Two iterators over one list, stepped in any interleaving with each other
\* and with the calls that only read the list.
NextFrame ==
    \/ \E v \in Values : NoIterYet /\ Len(nodes) < MaxFrameNodes /\ LinkedList_add(v)
    \/ \E x \in FrameVars : LinkedList_head(x)
    \/ \E x \in FrameVars : LinkedList_tail(x)
    \/ \E s \in Held, x \in FrameVars : Node_next(s, x)
    \/ \E s \in Held, x \in FrameVars : Node_prev(s, x)
    \/ \E s \in Held : LinkedList_is_tail(s)
    \/ \E s \in Held : LinkedList_is_head(s)
    \/ \E i \in IterIds : LinkedList_iter(i)
    \/ \E i \in IterIds : Iter_next(i)
    \/ \E i \in IterIds : Iter_next_back(i)

SpecFrame == Init /\ [][NextFrame]_vars

\* Every way to get a Node<T> copy (head, tail, chains of next and prev, the
\* steps of an iterator) and every call that takes one, with add and mutate
\* in between.  An iterator is followed for MaxFrameNodes items.
NextSafe ==
    \/ \E v \in Values : Len(nodes) < MaxFrameNodes /\ LinkedList_add(v)
    \/ \E x \in FrameVars : LinkedList_head(x)
    \/ \E x \in FrameVars : LinkedList_tail(x)
    \/ \E s \in Snapshots, x \in FrameVars : Node_next(s, x)
    \/ \E s \in Snapshots, x \in FrameVars : Node_prev(s, x)
    \/ \E s \in Snapshots, v \in Values : Node_mutate(s, v)
    \/ \E s \in Snapshots : LinkedList_is_tail(s)
    \/ \E s \in Snapshots : LinkedList_is_head(s)
    \/ \E i \in LoopIters : LinkedList_iter(i)
    \/ \E i \in LoopIters : Len(iters[i].yielded) < MaxFrameNodes /\ Iter_next(i)
    \/ \E i \in LoopIters : Len(iters[i].yielded) < MaxFrameNodes /\ Iter_next_back(i)

SpecSafe == Init /\ [][NextSafe]_vars

\* Every operation of the library.
Next ==
    \/ \E v \in Values : Len(nodes) < MaxIterNodes /\ LinkedList_add(v)
    \/ \E x \in HeldVars : LinkedList_head(x)
    \/ \E x \in HeldVars : LinkedList_tail(x)
    \/ \E s \in Snapshots, x \in HeldVars : Node_next(s, x)
    \/ \E s \in Snapshots, x \in HeldVars : Node_prev(s, x)
    \/ \E s \in Snapshots, v \in Values : Node_mutate(s, v)
    \/ \E s \in Snapshots : LinkedList_is_tail(s)
    \/ \E s \in Snapshots : LinkedList_is_head(s)
    \/ \E i \in IterIds : LinkedList_iter(i)
    \/ \E i \in IterIds : Iter_next(i)
    \/ \E i \in IterIds : Iter_next_back(i)

Spec == Init /\ [][Next]_vars

\* ---- claims --------------------------------------------------------------
\* The number of add calls so far: add is the only operation that creates a
\* node, and it creates exactly one.
N == Len(nodes)

\* No add since the copy s was taken.
Fresh(s) == s.at = N

\* The link reached from n by following next_node k times.
RECURSIVE Walk(_, _)
Walk(n, k) == IF k = 0 \/ n = None THEN n ELSE Walk(nodes[n].next_node, k - 1)

\* C1: after N >= 1 add calls (and any mutate calls) the nodes form one cycle:
\* following next from head visits the N nodes in insertion order and is back
\* at head after exactly N hops, head.prev is tail and tail.next is head; with
\* no add there is no head, no tail and no node.
C1_RingOfN ==
    IF N = 0
    THEN head = None /\ tail = None /\ nodes = << >>
    ELSE /\ head # None /\ tail # None
         /\ \A k \in 0..(N - 1) : Walk(head, k) = k + 1
         /\ Walk(head, N) = head
         /\ nodes[head].prev_node = tail
         /\ nodes[tail].next_node = head

\* Three adds and then a mutate have run.
C1_Witness == N >= 3 /\ call.op = "mutate"

\* C2: every node has both neighbours set, and n.next.prev = n and
\* n.prev.next = n (a single node points to itself both ways).
C2_Neighbours ==
    \A n \in 1..N :
        /\ nodes[n].next_node \in 1..N
        /\ nodes[n].prev_node \in 1..N
        /\ nodes[nodes[n].next_node].prev_node = n
        /\ nodes[nodes[n].prev_node].next_node = n

\* A ring with a node that is neither head nor tail, after a mutate.
C2_Witness == N >= 3 /\ call.op = "mutate" /\ nodes[2].value # nodes[1].value

\* C3: add on a non-empty list leaves head, makes the new node the tail with
\* new.prev = old tail, new.next = head, head.prev = new, old tail.next = new,
\* and changes no other link and no value of an existing node; head() returns
\* a copy of the first node added and tail() of the last one added.
C3_Add ==
    (N >= 1 /\ Len(nodes') = N + 1) =>
        LET new == N + 1
        IN /\ head' = head
           /\ tail' = new
           /\ nodes'[new].prev_node = tail
           /\ nodes'[new].next_node = head
           /\ nodes'[head].prev_node = new
           /\ nodes'[tail].next_node = new
           /\ \A n \in 1..N :
                /\ nodes'[n].value = nodes[n].value
                /\ n # head => nodes'[n].prev_node = nodes[n].prev_node
                /\ n # tail => nodes'[n].next_node = nodes[n].next_node

C3_HeadTail ==
    /\ (call'.op = "head" /\ fault' = "none") =>
          \E x \in HeldVars :
              /\ held'[x].of = 1
              /\ held'[x].value = nodes[1].value
              /\ held'[x].at = N
    /\ (call'.op = "tail" /\ fault' = "none") =>
          \E x \in HeldVars :
              /\ held'[x].of = N
              /\ held'[x].value = nodes[N].value
              /\ held'[x].at = N

C3_AddAppendsAtTail == [][C3_Add /\ C3_HeadTail]_vars

\* tail() has returned the node added last, to a ring that had a node other
\* than its head and tail before that add.
C3_Witness ==
    /\ N >= 4
    /\ call.op = "tail"
    /\ \E x \in HeldVars : held[x].of = N /\ held[x].at = N

\* C4: add(v) on an empty list makes the new node head and tail, with next
\* and prev pointing to itself and the value v.
C4_FirstAdd ==
    (call.op = "add" /\ N = 1) =>
        /\ head = 1
        /\ tail = 1
        /\ nodes[1] = [value |-> call.arg, next_node |-> 1, prev_node |-> 1]

C4_Witness == call.op = "add" /\ N = 1 /\ call.arg = 2

\* The iterator i has been stepped, and in one direction only.
OneWay(i) == iters[i].live /\ Cardinality(iters[i].dirs) <= 1
Forward(i) == iters[i].live /\ iters[i].dirs \subseteq {"next"}
Backward(i) == iters[i].live /\ iters[i].dirs \subseteq {"next_back"}
Exhausted(i) == iters[i].live /\ iters[i].cur_node = None

\* C5: over a list built from v1..vN and not modified while iterating, forward
\* steps yield the values v1, ..., vN in this order and then nothing, backward
\* steps yield vN, ..., v1 and then nothing; with N = 0 both yield nothing.
C5_IterationOrder ==
    \A i \in IterIds :
        LET y == iters[i].yielded
        IN /\ Forward(i) =>
                /\ Len(y) <= N
                /\ \A k \in 1..Len(y) : y[k] = [of |-> k, value |-> nodes[k].value]
                /\ Exhausted(i) <=> Len(y) = N
           /\ Backward(i) =>
                /\ Len(y) <= N
                /\ \A k \in 1..Len(y) :
                      y[k] = [of |-> N + 1 - k, value |-> nodes[N + 1 - k].value]
                /\ Exhausted(i) <=> Len(y) = N

\* A forward iteration over three nodes with different values has ended: the
\* step after the third item returned None.
C5_Witness ==
    \E i \in IterIds :
        /\ iters[i].dirs = {"next"}
        /\ Len(iters[i].yielded) = 3
        /\ nodes[1].value # nodes[2].value
        /\ call.op = "Iterator::next"
        /\ call.ret = "None"

\* C6 as stated: an iterator stepped in one direction only yields, for every
\* interleaving of its steps with add calls, exactly as many items as the ring
\* had nodes when the iterator was created.
C6_Original ==
    \A i \in IterIds :
        OneWay(i) =>
            /\ Len(iters[i].yielded) <= iters[i].size0
            /\ Exhausted(i) <=> Len(iters[i].yielded) = iters[i].size0

\* C6, amended: an iterator stepped in one direction only yields exactly as
\* many items as the ring had nodes when it was created, and then nothing, as
\* long as no add has been made since its creation; adds interleaved with its
\* steps can only lengthen the sequence, which has at least that many items
\* and at most as many as the ring has nodes when the iterator is exhausted.
C6_YieldCount ==
    \A i \in IterIds :
        OneWay(i) =>
            /\ iters[i].size0 = N =>
                  /\ Len(iters[i].yielded) <= N
                  /\ Exhausted(i) <=> Len(iters[i].yielded) = N
            /\ Exhausted(i) =>
                  /\ Len(iters[i].yielded) >= iters[i].size0
                  /\ Len(iters[i].yielded) <= N

\* A backward iteration over the three nodes the ring had at its creation has
\* ended with no add in between: the step after the third item returned None.
C6_Witness ==
    \E i \in IterIds :
        /\ iters[i].dirs = {"next_back"}
        /\ iters[i].size0 = 3
        /\ N = 3
        /\ Len(iters[i].yielded) = 3
        /\ call.op = "next_back"
        /\ call.ret = "None"

\* C7: for a copy s of node n with no add since it was taken, is_head(s) is
\* true exactly when n is the head and is_tail(s) exactly when n is the tail.
C7_HeadTailTest ==
    /\ \A s \in Snapshots :
          Fresh(s) =>
              /\ is_head(s) = (IF s.of = head THEN "true" ELSE "false")
              /\ is_tail(s) = (IF s.of = tail THEN "true" ELSE "false")
    /\ (call.op = "is_head" /\ Fresh(call.self)) =>
          call.ret = (IF call.self.of = head THEN "true" ELSE "false")
    /\ (call.op = "is_tail" /\ Fresh(call.self)) =>
          call.ret = (IF call.self.of = tail THEN "true" ELSE "false")

\* is_tail has returned false for a fresh copy of the head of a ring of three
\* nodes or more, for which is_head is true.
C7_Witness ==
    /\ N >= 3
    /\ call.op = "is_tail"
    /\ call.ret = "false"
    /\ Fresh(call.self)
    /\ call.self.of = head
    /\ is_head(call.self) = "true"

\* C8: for a copy s of node n with no add since it was taken, mutate(s, v)
\* sets the value of n to v, so that a copy of n taken afterwards carries v,
\* and leaves every copy the caller already has, s included, as it was.
C8_MutateStep ==
    (call'.op = "mutate" /\ fault' = "none" /\ call'.self.at = N) =>
        /\ \E n \in 1..N :
              /\ n = call'.self.of
              /\ nodes'[n].value = call'.arg
              /\ Clone(n)'.value = call'.arg
              /\ \A m \in 1..N : m # n => nodes'[m].value = nodes[m].value
        /\ held' = held
        /\ Items' = Items
        /\ call'.self \in Snapshots'

C8_Mutate == [][C8_MutateStep]_vars

\* mutate has changed the value of a node of which the caller holds a fresh
\* copy with the old value, next to a copy of another node.
C8_Witness ==
    /\ call.op = "mutate"
    /\ Fresh(call.self)
    /\ call.self \in Held
    /\ nodes[call.self.of].value = call.arg
    /\ call.self.value # call.arg
    /\ \E t \in Held : t.of # call.self.of

\* C9 as stated: for a copy s of node n taken at any earlier state, after any
\* number of adds, s's recorded next neighbour's current prev link is n, so
\* that mutate(s, v) writes into n and is_head(s) / is_tail(s) tell whether n
\* is the head / the tail.
C9_ResolveRobust ==
    \A s \in Snapshots :
        /\ Resolve(s) = s.of
        /\ is_head(s) = (IF s.of = head THEN "true" ELSE "false")
        /\ is_tail(s) = (IF s.of = tail THEN "true" ELSE "false")

\* The copy next() returns k times in a row from s, and prev().
RECURSIVE NextK(_, _)
NextK(s, k) == IF k = 0 THEN s ELSE NextK(next(s), k - 1)
RECURSIVE PrevK(_, _)
PrevK(s, k) == IF k = 0 THEN s ELSE PrevK(prev(s), k - 1)

\* C10: with no add during the walk, a copy of node n followed by k next()
\* and then k prev() is a copy of n with n's value, also when the hops wrap
\* around the ring.
C10_RoundTrip ==
    \A n \in 1..N : \A k \in 0..MaxHops :
        LET back == PrevK(NextK(Clone(n), k), k)
        IN /\ back.of = n
           /\ back.value = nodes[n].value
           /\ back = Clone(n)

\* prev() has been called on a fresh copy of the head of a ring of three nodes
\* or more and the caller holds the copy of the tail it returned: the hop
\* wrapped around the ring, as MaxHops next() from the tail do.
C10_Witness ==
    /\ N >= 3
    /\ call.op = "prev"
    /\ Fresh(call.self)
    /\ call.self.of = head
    /\ \E x \in HeldVars : held[x].of = tail /\ Fresh(held[x])
    /\ NextK(Clone(tail), MaxHops).of # tail
\* C11: over a list built from v1..vN, one forward iteration that mutates
\* each item s to F(s.value) as it is yielded visits every node exactly once,
\* in order, ends after N items, and leaves F(v1), ..., F(vN) in the ring.
C11_LoopState ==
    \A i \in LoopIters :
        iters[i].live =>
            LET y == iters[i].yielded
                \* the items already mutated
                done == IF call.op = "Iterator::next" /\ call.ret = "Some"
                        THEN Len(y) - 1 ELSE Len(y)
            IN /\ Len(y) <= N
               /\ \A k \in 1..Len(y) : y[k].of = k /\ y[k].value \in Values
               /\ Exhausted(i) <=> Len(y) = N
               /\ \A k \in 1..N :
                    nodes[k].value = IF k <= done THEN F(y[k].value)
                                     ELSE IF k <= Len(y) THEN y[k].value
                                     ELSE nodes[k].value
               /\ \A k \in (Len(y) + 1)..N : nodes[k].value \in Values

\* A step of the loop changes the value of no node but the one just yielded.
C11_LoopStep ==
    \A i \in LoopIters :
        iters[i].live =>
            \A k \in 1..N :
                nodes'[k].value # nodes[k].value =>
                    /\ k = Len(iters[i].yielded)
                    /\ nodes'[k].value = F(nodes[k].value)

C11_MutatingLoop == []C11_LoopState /\ [][C11_LoopStep]_vars

\* The loop over three nodes with different values has ended: the step after
\* the third item returned None and the ring holds F of the three values.
C11_Witness ==
    \E i \in LoopIters :
        /\ N = 3
        /\ Len(iters[i].yielded) = 3
        /\ call.op = "Iterator::next"
        /\ call.ret = "None"
        /\ iters[i].yielded[1].value # iters[i].yielded[2].value
        /\ \A k \in 1..3 : nodes[k].value = F(iters[i].yielded[k].value)
\* The first list, as a LinkedList value.
This == [head |-> head, tail |-> tail]

\* C12 as stated: every panic met on an empty list is the "not built" panic
\* of head() and tail().
C12_Original == fault # "none" => fault = "LinkedList is not built!"

\* C12: on an empty list head(), tail(), is_head(s) and is_tail(s) (s a copy
\* from another list) end in a panic and never return a value, and the list
\* is still empty afterwards.  head() and tail() panic with the "not built"
\* message; is_head and is_tail panic in the unwrap of the list's absent
\* head or tail, which needs a copy to have been passed in.
C12_NoValue ==
    /\ N = 0 =>
          /\ head_of(This) = "panic"
          /\ tail_of(This) = "panic"
          /\ call.op \notin {"head", "tail", "is_head", "is_tail"}
          /\ head = None /\ tail = None
    /\ head_of(Other) = "panic"
    /\ tail_of(Other) = "panic"
    /\ \A s \in Snapshots :
          /\ is_head_of(Other, s) = "panic"
          /\ is_tail_of(Other, s) = "panic"
    /\ call.op \notin {"other.head", "other.tail", "other.is_head", "other.is_tail"}
    /\ fault \in {"none", "LinkedList is not built!", "unwrap on None"}
    /\ fault = "unwrap on None" => Held # {}

\* A panic leaves the lists, the copies and the iterators as they were.
C12_PanicStep ==
    fault' # "none" => UNCHANGED <<nodes, head, tail, held, iters, call>>

C12_EmptyListPanics == []C12_NoValue /\ [][C12_PanicStep]_vars

\* is_head or is_tail has panicked on the empty second list, given a copy of
\* a node of the first list.
C12_Witness == fault = "unwrap on None" /\ Held # {} /\ N >= 2
\* C13: on a list of N nodes with no add since the iterator was created, an
\* iterator stepped by any mix of forward and backward steps yields at most
\* N items.
C13_Original ==
    \A i \in IterIds :
        (iters[i].live /\ iters[i].size0 = N) => Len(iters[i].yielded) <= N

\* The node the next forward step of iterator i yields, None when it yields
\* nothing.
FrontTarget(i) == iters[i].cur_node

\* The node the next backward step of iterator i yields, None when it yields
\* nothing.
BackTarget(i) ==
    IF iters[i].cur_node = None THEN None
    ELSE nodes[iters[i].cur_node].prev_node

\* Iterator i has yielded an item in this step and is not exhausted by it.
Stepped(i) ==
    /\ iters[i].live
    /\ Len(iters'[i].yielded) = Len(iters[i].yielded) + 1
    /\ iters'[i].cur_node # None

\* C14: a forward step of an iterator never changes which node its next
\* backward step yields, and a backward step never changes which node its next
\* forward step yields.
C14_Step ==
    \A i \in IterIds :
        /\ (Stepped(i) /\ call'.op = "Iterator::next") => BackTarget(i)' = BackTarget(i)
        /\ (Stepped(i) /\ call'.op = "next_back") => FrontTarget(i)' = FrontTarget(i)

C14_Original == [][C14_Step]_vars
\* An iterator created on an empty list is exhausted from the start and has
\* yielded nothing.
C15_EmptyStart ==
    \A i \in IterIds :
        (iters[i].live /\ iters[i].size0 = 0) =>
            /\ Exhausted(i)
            /\ iters[i].yielded = << >>

\* A step that leaves the iterator variable i the same iterator (no new
\* iter() call) keeps an exhausted iterator exhausted and yields no item from
\* it, whether the step is next, next_back, add or mutate.
C15_Step ==
    \A i \in IterIds :
        (Exhausted(i) /\ call'.op # "iter") =>
            /\ Exhausted(i)'
            /\ iters'[i].yielded = iters[i].yielded
            /\ iters'[i].item \in {NoItem, iters[i].item}
            /\ call'.op \in {"Iterator::next", "next_back"} => iters'[i].item = NoItem

\* C15: exhaustion is absorbing: once the cursor of an iterator is None, every
\* later forward or backward step of it produces no value, whatever add and
\* mutate calls are made in between; an iterator created on an empty list is
\* exhausted from the start and stays so after later adds.
C15_Absorbing == []C15_EmptyStart /\ [][C15_Step]_vars

\* An iterator over a non-empty list was exhausted, nodes were added
\* afterwards (it has yielded fewer items than the list has nodes), and a
\* later step of it has returned None.
C15_Witness ==
    \E i \in LoopIters :
        /\ Exhausted(i)
        /\ iters[i].size0 > 0
        /\ Len(iters[i].yielded) < N
        /\ iters[i].item = NoItem
        /\ call.op \in {"Iterator::next", "next_back"}
        /\ call.ret = "None"
\* The list itself: its nodes with their links and values, its head and tail.
Store == <<nodes, head, tail>>

\* Only add changes the list: head(), tail(), is_head, is_tail, iter(),
\* Node::next, Node::prev and the iterator steps leave it as it is.
C16_StoreFrame == Store' # Store => call'.op = "add"

\* A step that changes an iterator is iter() or a step of that iterator; it
\* changes no other iterator and no Node<T> copy the program holds, and a
\* step of the iterator leaves its head (the origin) as it is.
C16_IterFrame ==
    \A i \in IterIds :
        iters'[i] # iters[i] =>
            /\ call'.op \in {"iter", "Iterator::next", "next_back"}
            /\ \A j \in IterIds \ {i} : iters'[j] = iters[j]
            /\ held' = held
            /\ call'.op # "iter" =>
                  /\ iters[i].live
                  /\ iters'[i].head = iters[i].head
                  /\ iters'[i].size0 = iters[i].size0

\* The calls that return a Node<T> copy change no iterator.
C16_HeldFrame ==
    held' # held =>
        /\ call'.op \in {"head", "tail", "next", "prev"}
        /\ iters' = iters

\* C16: stepping an iterator, forward or backward, changes only that
\* iterator's cursor: the list's head, tail, links and values and every other
\* iterator stay as they are; head(), tail(), is_head, is_tail, iter(),
\* Node::next and Node::prev change nothing in the list either.
C16_Frame == [][C16_StoreFrame /\ C16_IterFrame /\ C16_HeldFrame]_vars

\* Two iterators over the same two-node list have both yielded items and stand
\* at different places, and a Node<T> copy has been tested with is_head.
C16_Witness ==
    \E i, j \in IterIds :
        /\ i # j
        /\ iters[i].live /\ iters[j].live
        /\ N = 2
        /\ iters[i].head = head /\ iters[j].head = head
        /\ Len(iters[i].yielded) = 1
        /\ Len(iters[j].yielded) = 2
        /\ iters[i].cur_node # iters[j].cur_node
        /\ "next_back" \in iters[j].dirs
        /\ Held # {}
        /\ call.op = "is_head"
\* A mutate call has returned in this step: it changes no link, not the head,
\* the tail or the number of nodes, and assigns the value of exactly one node
\* of the list, the one the copy is resolved to; the ring is closed afterwards.
C17_Step ==
    (call'.op = "mutate" /\ fault' = "none") =>
        /\ N >= 1
        /\ Len(nodes') = N
        /\ head' = head
        /\ tail' = tail
        /\ \A m \in 1..N :
              /\ nodes'[m].next_node = nodes[m].next_node
              /\ nodes'[m].prev_node = nodes[m].prev_node
        /\ \E n \in 1..N :
              /\ n = Resolve(call'.self)
              /\ nodes'[n].value = call'.arg
              /\ \A m \in 1..N : m # n => nodes'[m].value = nodes[m].value
        /\ C1_RingOfN'
        /\ C2_Neighbours'

\* C17: mutate(s, v), for any copy s (fresh or stale) taken from a non-empty
\* list, never changes a next or prev link, the head, the tail or the number
\* of nodes, and changes the value of exactly one node; the ring invariant
\* holds after it.
C17_MutateFrame == [][C17_Step]_vars

\* mutate was called with a stale copy (nodes were added after it was taken)
\* whose recorded value differs from the one written, on a ring of three or
\* more nodes.
C17_Witness ==
    /\ call.op = "mutate"
    /\ call.self.at < N
    /\ call.self.at >= 2
    /\ N >= 3
    /\ call.self.value # call.arg
    /\ \E n \in 1..N : nodes[n].value = call.arg
\* C18: every Node<T> copy got from a non-empty list (by head(), tail(), an
\* iterator step or a chain of next() and prev()) has both links set, so
\* next(), prev(), mutate, is_head and is_tail on it never panic, in any state
\* reached by add and mutate: the only panic left is head() or tail() on the
\* empty list.
C18_NoMissingNeighbour ==
    /\ \A s \in Snapshots :
          /\ s.next_node \in 1..N
          /\ s.prev_node \in 1..N
          /\ Resolve(s) \in 1..N
          /\ is_head(s) \in {"true", "false"}
          /\ is_tail(s) \in {"true", "false"}
    /\ fault \in {"none", "LinkedList is not built!"}
    /\ fault # "none" => N = 0

\* mutate has returned for a stale item of an iterator (a node was added after
\* the step that yielded it) while the caller also holds a copy got through
\* head(), tail(), next() or prev().
C18_Witness ==
    /\ fault = "none"
    /\ call.op = "mutate"
    /\ call.self \in Items
    /\ call.self.at < N
    /\ Held # {}
====
